---- MODULE Spec2Model ----
(***************************************************************************)
(* Model of Opm::ECLPVT::ECLPvtCurveCollection                             *)
(* (opm/utility/ECLPvtCurveCollection.cpp).                                *)
(*                                                                         *)
(* The collection owns the PVTNUM region vector, the oil and gas PVT       *)
(* interpolant handles and three unit systems.  Every public member        *)
(* function is one action; its body is the operator of the same name,      *)
(* which returns a record holding how the call ended ("returned",          *)
(* "raised" for a C++ exception, "aborted" for a failed assert), the       *)
(* value returned, and the collaborator calls it made (interpolant         *)
(* invocations and unit converters constructed).                           *)
(*                                                                         *)
(* Numbers are exact rationals <<n, d>> in lowest terms, so that a unit    *)
(* conversion is a real rescaling and the converter applied to a value     *)
(* can be read off the value.  Floating point rounding is not modelled.    *)
(***************************************************************************)
EXTENDS Integers, Sequences, FiniteSets, TLC

VARIABLES
    pvtnum_,         \* std::vector<int>: one-based PVT region tag per cell
    gas_,            \* gas interpolant handle, possibly nullptr
    oil_,            \* oil interpolant handle, possibly nullptr
    usys_native_,    \* unit system of the result set
    usys_internal_,  \* internal (SI) unit system
    usys_output_,    \* caller's output unit system, possibly nullptr
    ndebug,          \* build flavour: TRUE when assert() is compiled out
    G,               \* the ECLGraph handed to the constructor
    init,            \* the ECLInitFileData handed to the constructor
    last,            \* the call in progress at the caller: arguments and result
    lastSet,         \* history: argument of the most recent setOutputUnits call
    nonSIWasSet      \* history: some setOutputUnits call named a non-SI system

vars == << pvtnum_, gas_, oil_, usys_native_, usys_internal_, usys_output_,
           ndebug, G, init, last, lastSet, nonSIWasSet >>

----------------------------------------------------------------------------
(* Bounds of the model.                                                    *)

MaxCells == 2

MaxRegion == 2

MaxSeries == 2

MaxLen == 1

CurveSamples == 2

\* size_t arithmetic is modular.  The model's integers are narrower than 64
\* bits; the modulus keeps what matters of the conversion int -> size_t: a
\* negative int becomes a value larger than any vector size.
SizeModulus == 2 ^ 30

----------------------------------------------------------------------------
(* Values.                                                                 *)

nullptr == "nullptr"

Phases == {"Liquid", "Vapour", "Aqua"}

RawCurves == {"FVF", "Viscosity", "SaturatedState", "Unrecognised"}

UnitSystems == {"SI", "Metric", "Field"}

NativeSystems == {"Metric", "Field"}

Cells == (-1) .. MaxCells

RECURSIVE GCD(_, _)
GCD(a, b) == IF b = 0 THEN a ELSE GCD(b, a % b)

Rat(n, d) == IF n = 0 THEN <<0, 1>> ELSE LET g == GCD(n, d) IN <<n \div g, d \div g>>

RatMul(a, b) == Rat(a[1] * b[1], a[2] * b[2])

RatDiv(a, b) == Rat(a[1] * b[2], a[2] * b[1])

SeqsUpTo(S, n) == UNION {[1..k -> S] : k \in 0..n}

PressSamples == {<<2, 1>>}

MixSamples == {<<0, 1>>, <<1, 1>>}

PressArrays == SeqsUpTo(PressSamples, MaxLen)

MixArrays == SeqsUpTo(MixSamples, MaxLen)

----------------------------------------------------------------------------
(* Collaborators: unit systems and single-quantity converters              *)
(* (opm/utility/ECLPropertyUnitConversion.hpp, ECLUnitHandling.hpp).       *)

Quantities == {"Pressure", "DissolvedGasOilRatio", "VaporisedOilGasRatio",
               "OilFVF", "GasFVF", "Viscosity"}

\* Value in SI units of one unit of quantity q in unit system usys.  The
\* factors are pairwise different, so that the quantity and the unit system
\* of a conversion can be recognised from its effect.
UnitScale(usys, q) ==
    IF usys = "SI" THEN <<1, 1>>
    ELSE IF usys = "Metric"
         THEN CASE q = "Pressure"             -> <<2, 1>>
                [] q = "DissolvedGasOilRatio" -> <<3, 1>>
                [] q = "VaporisedOilGasRatio" -> <<5, 1>>
                [] q = "OilFVF"               -> <<7, 1>>
                [] q = "GasFVF"               -> <<11, 1>>
                [] q = "Viscosity"            -> <<13, 1>>
         ELSE CASE q = "Pressure"             -> <<17, 1>>
                [] q = "DissolvedGasOilRatio" -> <<19, 1>>
                [] q = "VaporisedOilGasRatio" -> <<23, 1>>
                [] q = "OilFVF"               -> <<29, 1>>
                [] q = "GasFVF"               -> <<31, 1>>
                [] q = "Viscosity"            -> <<37, 1>>

\* Convert::<Quantity>().from(usysFrom).to(usysTo)
Convert(q, usysFrom, usysTo) == [quantity |-> q, from |-> usysFrom, to |-> usysTo]

\* PhysicalQuantity::appliedTo(x): rescales every element of x in place.
appliedTo(cvrt, x) ==
    [i \in 1..Len(x) |->
        RatMul(x[i], RatDiv(UnitScale(cvrt.from, cvrt.quantity),
                            UnitScale(cvrt.to, cvrt.quantity)))]

\* ECLUnits::internalUnitConventions()
internalUnitConventions == "SI"

\* ECLUnits::serialisedUnitConventions(init)
serialisedUnitConventions(i) == i.units

----------------------------------------------------------------------------
(* Collaborators: the PVT interpolants (ECLPVT::Oil, ECLPVT::Gas).  They   *)
(* are opaque tables; the model gives every (phase, function, region,      *)
(* sample) its own value, so that a wrong argument shows in the result.    *)

Res(outcome, value, interp, cvt) ==
    [outcome |-> outcome, value |-> value, interp |-> interp, cvt |-> cvt]

InterpCall(phase, fn, curve, regID, R, press) ==
    [phase |-> phase, fn |-> fn, curve |-> curve, regID |-> regID,
     R |-> R, press |-> press]

KindCode(kind) ==
    CASE kind \in {"FVF", "formationVolumeFactor"} -> 1
      [] kind \in {"Viscosity", "viscosity"} -> 2
      [] kind = "SaturatedState" -> 3
      [] OTHER -> 4

PhaseCode(phase) == IF phase = "Liquid" THEN 0 ELSE 1

TableCode(phase, kind, regID) == (regID * 8 + KindCode(kind)) * 2 + PhaseCode(phase) + 1

\* CreateOilPVTInterpolant::fromECLOutput(init): null when the result set
\* holds no oil tables.
CreateOilPVTInterpolant(i) == IF i.hasOil THEN "OilPVT" ELSE nullptr

\* CreateGasPVTInterpolant::fromECLOutput(init)
CreateGasPVTInterpolant(i) == IF i.hasGas THEN "GasPVT" ELSE nullptr

\* pvt->getPvtCurve(curve, regID).  ext.nseries is the number of series of
\* the table (1: immiscible, more: miscible); what the interpolant does with
\* a curve kind it does not know is ext.unknown.
PVTInterp_getPvtCurve(phase, curve, regID, ext) ==
    LET call == <<InterpCall(phase, "getPvtCurve", curve, regID, <<>>, <<>>)>> IN
    IF curve \notin {"FVF", "Viscosity", "SaturatedState"} /\ ext.unknown = "raises"
    THEN Res("raised", <<>>, call, <<>>)
    ELSE Res("returned",
             [s \in 1..ext.nseries |->
                 [first  |-> [j \in 1..CurveSamples |-> <<10 * s + j, 1>>],
                  second |-> [j \in 1..CurveSamples |->
                                 <<100 * TableCode(phase, curve, regID) + 10 * s + j, 1>>]]],
             call, <<>>)

\* pvt->formationVolumeFactor(regID, R, press) and pvt->viscosity(regID, R,
\* press): one value per sample; arrays of different lengths are rejected.
PVTInterp_evaluate(phase, fn, regID, R, press) ==
    LET call == <<InterpCall(phase, fn, "-", regID, R, press)>> IN
    IF Len(R) # Len(press)
    THEN Res("raised", <<>>, call, <<>>)
    ELSE Res("returned",
             [i \in 1..Len(press) |->
                 Rat(((press[i][1] * 64 + R[i][1]) * 64 + TableCode(phase, fn, regID)),
                     press[i][2] * R[i][2])],
             call, <<>>)

----------------------------------------------------------------------------
(* File-local helpers of ECLPvtCurveCollection.cpp.                        *)

\* G.rawLinearisedCellData<int>(init, "PVTNUM") is init.PVTNUM: empty when
\* the keyword is missing.
pvtnumVector(g, i) ==
    LET pvtnum == i.PVTNUM IN
    IF pvtnum = <<>> THEN [c \in 1..g.numCells |-> 1] ELSE pvtnum

emptyFDGraph == << [first |-> <<>>, second |-> <<>>] >>

Aborted(interp, cvt) == Res("aborted", <<>>, interp, cvt)

\* pvt is the handle, phase tells which interpolant type PVTInterp is.
\* rawPvtCurve returning a curve of no series for a null interpolant.
rawPvtCurve_NoSeries(pvt, phase, curve, regID, ext) ==
    IF pvt = nullptr
    THEN Res("returned", <<>>, <<>>, <<>>)
    ELSE PVTInterp_getPvtCurve(phase, curve, regID, ext)

rawPvtCurve(pvt, phase, curve, regID, ext) ==
    IF pvt = nullptr
    THEN Res("returned", emptyFDGraph, <<>>, <<>>)
    ELSE PVTInterp_getPvtCurve(phase, curve, regID, ext)

\* The callers return before on a null handle, so the assert never fails and
\* no null handle is dereferenced.
formationVolumeFactor(pvt, phase, regID, press, R) ==
    IF pvt = nullptr /\ ~ndebug
    THEN Aborted(<<>>, <<>>)
    ELSE PVTInterp_evaluate(phase, "formationVolumeFactor", regID, R, press)

viscosity(pvt, phase, regID, press, R) ==
    IF pvt = nullptr /\ ~ndebug
    THEN Aborted(<<>>, <<>>)
    ELSE PVTInterp_evaluate(phase, "viscosity", regID, R, press)

gasProperty(pvt, property, regID, Pg, Rv) ==
    IF pvt = nullptr
    THEN Res("returned", <<>>, <<>>, <<>>)
    ELSE IF ~(property = "FVF" \/ property = "Viscosity") /\ ~ndebug
    THEN Aborted(<<>>, <<>>)
    ELSE LET pg == Pg
             rv == IF Rv = <<>> THEN [i \in 1..Len(pg) |-> <<0, 1>>] ELSE Rv
         IN  IF property = "FVF"
             THEN formationVolumeFactor(pvt, "Vapour", regID, pg, rv)
             ELSE viscosity(pvt, "Vapour", regID, pg, rv)

\* oilProperty handing an empty Rs to the interpolant as it is.
oilProperty_NoZeroFill(pvt, property, regID, Po, Rs) ==
    IF pvt = nullptr
    THEN Res("returned", <<>>, <<>>, <<>>)
    ELSE IF ~(property = "FVF" \/ property = "Viscosity") /\ ~ndebug
    THEN Aborted(<<>>, <<>>)
    ELSE IF property = "FVF"
    THEN formationVolumeFactor(pvt, "Liquid", regID, Po, Rs)
    ELSE viscosity(pvt, "Liquid", regID, Po, Rs)

oilProperty(pvt, property, regID, Po, Rs) ==
    IF pvt = nullptr
    THEN Res("returned", <<>>, <<>>, <<>>)
    ELSE IF ~(property = "FVF" \/ property = "Viscosity") /\ ~ndebug
    THEN Aborted(<<>>, <<>>)
    ELSE LET po == Po
             rs == IF Rs = <<>> THEN [i \in 1..Len(po) |-> <<0, 1>>] ELSE Rs
         IN  IF property = "FVF"
             THEN formationVolumeFactor(pvt, "Liquid", regID, po, rs)
             ELSE viscosity(pvt, "Liquid", regID, po, rs)

\* Both columns of every series are rescaled; the converters used are logged.
convertCurve(curves, cvrt_x, cvrt_y) ==
    Res("returned",
        [i \in 1..Len(curves) |->
            [first  |-> appliedTo(cvrt_x, curves[i].first),
             second |-> appliedTo(cvrt_y, curves[i].second)]],
        <<>>, <<cvrt_x, cvrt_y>>)

convertFvfCurve(curve, phase, usysFrom, usysTo) ==
    IF ~(phase = "Liquid" \/ phase = "Vapour") /\ ~ndebug
    THEN Aborted(<<>>, <<>>)
    ELSE IF phase = "Liquid"
    THEN convertCurve(curve, Convert("Pressure", usysFrom, usysTo),
                             Convert("OilFVF", usysFrom, usysTo))
    ELSE IF Len(curve) <= 1
    THEN convertCurve(curve, Convert("Pressure", usysFrom, usysTo),
                             Convert("GasFVF", usysFrom, usysTo))
    ELSE convertCurve(curve, Convert("VaporisedOilGasRatio", usysFrom, usysTo),
                             Convert("GasFVF", usysFrom, usysTo))

\* convertViscosityCurve telling miscible gas by the phase alone.
convertViscosityCurve_PhaseOnly(curve, phase, usysFrom, usysTo) ==
    IF ~(phase = "Liquid" \/ phase = "Vapour") /\ ~ndebug
    THEN Aborted(<<>>, <<>>)
    ELSE IF phase = "Liquid"
    THEN convertCurve(curve, Convert("Pressure", usysFrom, usysTo),
                             Convert("Viscosity", usysFrom, usysTo))
    ELSE convertCurve(curve, Convert("VaporisedOilGasRatio", usysFrom, usysTo),
                             Convert("Viscosity", usysFrom, usysTo))

convertViscosityCurve(curve, phase, usysFrom, usysTo) ==
    IF ~(phase = "Liquid" \/ phase = "Vapour") /\ ~ndebug
    THEN Aborted(<<>>, <<>>)
    ELSE IF phase = "Liquid" \/ Len(curve) <= 1
    THEN convertCurve(curve, Convert("Pressure", usysFrom, usysTo),
                             Convert("Viscosity", usysFrom, usysTo))
    ELSE convertCurve(curve, Convert("VaporisedOilGasRatio", usysFrom, usysTo),
                             Convert("Viscosity", usysFrom, usysTo))

convertSatStateCurve(curve, phase, usysFrom, usysTo) ==
    IF ~(phase = "Liquid" \/ phase = "Vapour") /\ ~ndebug
    THEN Aborted(<<>>, <<>>)
    ELSE IF phase = "Liquid"
    THEN convertCurve(curve, Convert("Pressure", usysFrom, usysTo),
                             Convert("DissolvedGasOilRatio", usysFrom, usysTo))
    ELSE convertCurve(curve, Convert("Pressure", usysFrom, usysTo),
                             Convert("VaporisedOilGasRatio", usysFrom, usysTo))

----------------------------------------------------------------------------
(* Member functions of ECLPvtCurveCollection.                              *)

static_cast_size_t(i) == i % SizeModulus

\* isValidRequest with the phase test left out.
isValidRequest_NoPhaseTest(phase, activeCell) ==
    static_cast_size_t(activeCell) < Len(pvtnum_)

isValidRequest(phase, activeCell) ==
    IF ~(phase = "Liquid" \/ phase = "Vapour")
    THEN FALSE
    ELSE static_cast_size_t(activeCell) < Len(pvtnum_)

\* this->pvtnum_[activeCell] - 1 (cells are zero-based, sequences one-based)
\* The region identifier without the shift to zero-based.
regID_NoOffset(activeCell) == pvtnum_[activeCell + 1]

regID(activeCell) == pvtnum_[activeCell + 1] - 1

\* convertToOutputUnits returning the curve as it is for an unknown kind.
convertToOutputUnits_FallThrough(graph, curve, phase) ==
    IF graph.outcome # "returned"
    THEN graph
    ELSE IF usys_output_ = nullptr
    THEN graph
    ELSE IF ~(phase = "Liquid" \/ phase = "Vapour") /\ ~ndebug
    THEN Aborted(graph.interp, <<>>)
    ELSE LET done ==
               IF curve = "FVF"
               THEN convertFvfCurve(graph.value, phase, usys_internal_, usys_output_)
               ELSE IF curve = "Viscosity"
               THEN convertViscosityCurve(graph.value, phase, usys_internal_, usys_output_)
               ELSE IF curve = "SaturatedState"
               THEN convertSatStateCurve(graph.value, phase, usys_internal_, usys_output_)
               ELSE graph
         IN  [done EXCEPT !.interp = graph.interp]

\* graph is the outcome of evaluating the first argument: an exception raised
\* there leaves the function uncalled.
convertToOutputUnits(graph, curve, phase) ==
    IF graph.outcome # "returned"
    THEN graph
    ELSE IF usys_output_ = nullptr
    THEN graph
    ELSE IF ~(phase = "Liquid" \/ phase = "Vapour") /\ ~ndebug
    THEN Aborted(graph.interp, <<>>)
    ELSE LET done ==
               IF curve = "FVF"
               THEN convertFvfCurve(graph.value, phase, usys_internal_, usys_output_)
               ELSE IF curve = "Viscosity"
               THEN convertViscosityCurve(graph.value, phase, usys_internal_, usys_output_)
               ELSE IF curve = "SaturatedState"
               THEN convertSatStateCurve(graph.value, phase, usys_internal_, usys_output_)
               ELSE Res("raised", <<>>, <<>>, <<>>)   \* std::invalid_argument
         IN  [done EXCEPT !.interp = graph.interp]

getPvtCurve(curve, phase, activeCell, ext) ==
    IF ~isValidRequest(phase, activeCell)
    THEN Res("returned", emptyFDGraph, <<>>, <<>>)
    ELSE IF phase = "Liquid"
    THEN convertToOutputUnits(
             rawPvtCurve(oil_, "Liquid", curve, regID(activeCell), ext), curve, phase)
    ELSE IF phase # "Vapour" /\ ~ndebug
    THEN Aborted(<<>>, <<>>)
    ELSE convertToOutputUnits(
             rawPvtCurve(gas_, "Vapour", curve, regID(activeCell), ext), curve, phase)

\* getDynamicPropertySI without the test for the saturated state curve.
getDynamicPropertySI_NoSatStateTest(property, phase, activeCell, phasePress, mixRatio) ==
    IF ~isValidRequest(phase, activeCell)
    THEN Res("returned", <<>>, <<>>, <<>>)
    ELSE IF phase = "Liquid"
    THEN oilProperty(oil_, property, regID(activeCell), phasePress, mixRatio)
    ELSE IF phase # "Vapour" /\ ~ndebug
    THEN Aborted(<<>>, <<>>)
    ELSE gasProperty(gas_, property, regID(activeCell), phasePress, mixRatio)

getDynamicPropertySI(property, phase, activeCell, phasePress, mixRatio) ==
    IF ~isValidRequest(phase, activeCell) \/ property = "SaturatedState"
    THEN Res("returned", <<>>, <<>>, <<>>)
    ELSE IF phase = "Liquid"
    THEN oilProperty(oil_, property, regID(activeCell), phasePress, mixRatio)
    ELSE IF phase # "Vapour" /\ ~ndebug
    THEN Aborted(<<>>, <<>>)
    ELSE gasProperty(gas_, property, regID(activeCell), phasePress, mixRatio)

\* getDynamicPropertyNative converting every FVF result as an oil FVF.
getDynamicPropertyNative_OilFvfOnly(property, phase, activeCell, phasePress, mixRatio) ==
    IF ~isValidRequest(phase, activeCell) \/ property = "SaturatedState"
    THEN Res("returned", <<>>, <<>>, <<>>)
    ELSE IF (usys_native_ = nullptr \/ usys_internal_ = nullptr) /\ ~ndebug
    THEN Aborted(<<>>, <<>>)
    ELSE LET \* 1) inputs from native to internal (SI) units
             cvrt_p == Convert("Pressure", usys_native_, usys_internal_)
             press  == appliedTo(cvrt_p, phasePress)
         IN
         IF phase # "Liquid" /\ phase # "Vapour" /\ ~ndebug
         THEN Aborted(<<>>, <<cvrt_p>>)
         ELSE
         LET cvrt_r == IF phase = "Liquid"
                       THEN Convert("DissolvedGasOilRatio", usys_native_, usys_internal_)
                       ELSE Convert("VaporisedOilGasRatio", usys_native_, usys_internal_)
             mix    == appliedTo(cvrt_r, mixRatio)
             \* 2) evaluate in strict SI units
             prop   == getDynamicPropertySI(property, phase, activeCell, press, mix)
             in_    == <<cvrt_p, cvrt_r>>
         IN
         \* 3) result to the output units
         IF prop.outcome # "returned"
         THEN [prop EXCEPT !.cvt = in_]
         ELSE IF usys_output_ = nullptr
         THEN [prop EXCEPT !.cvt = in_]
         ELSE IF property = "Viscosity"
         THEN LET c == Convert("Viscosity", usys_internal_, usys_output_) IN
              Res("returned", appliedTo(c, prop.value), prop.interp, Append(in_, c))
         ELSE IF property # "FVF" /\ ~ndebug
         THEN Aborted(prop.interp, in_)
         ELSE IF phase # "Liquid" /\ ~ndebug
         THEN Aborted(prop.interp, in_)
         ELSE LET c == Convert("OilFVF", usys_internal_, usys_output_) IN
              Res("returned", appliedTo(c, prop.value), prop.interp, Append(in_, c))

getDynamicPropertyNative(property, phase, activeCell, phasePress, mixRatio) ==
    IF ~isValidRequest(phase, activeCell) \/ property = "SaturatedState"
    THEN Res("returned", <<>>, <<>>, <<>>)
    ELSE IF (usys_native_ = nullptr \/ usys_internal_ = nullptr) /\ ~ndebug
    THEN Aborted(<<>>, <<>>)
    ELSE LET \* 1) inputs from native to internal (SI) units
             cvrt_p == Convert("Pressure", usys_native_, usys_internal_)
             press  == appliedTo(cvrt_p, phasePress)
         IN
         IF phase # "Liquid" /\ phase # "Vapour" /\ ~ndebug
         THEN Aborted(<<>>, <<cvrt_p>>)
         ELSE
         LET cvrt_r == IF phase = "Liquid"
                       THEN Convert("DissolvedGasOilRatio", usys_native_, usys_internal_)
                       ELSE Convert("VaporisedOilGasRatio", usys_native_, usys_internal_)
             mix    == appliedTo(cvrt_r, mixRatio)
             \* 2) evaluate in strict SI units
             prop   == getDynamicPropertySI(property, phase, activeCell, press, mix)
             in_    == <<cvrt_p, cvrt_r>>
         IN
         \* 3) result to the output units
         IF prop.outcome # "returned"
         THEN [prop EXCEPT !.cvt = in_]
         ELSE IF usys_output_ = nullptr
         THEN [prop EXCEPT !.cvt = in_]
         ELSE IF property = "Viscosity"
         THEN LET c == Convert("Viscosity", usys_internal_, usys_output_) IN
              Res("returned", appliedTo(c, prop.value), prop.interp, Append(in_, c))
         ELSE IF property # "FVF" /\ ~ndebug
         THEN Aborted(prop.interp, in_)
         ELSE IF phase = "Vapour"
         THEN LET c == Convert("GasFVF", usys_internal_, usys_output_) IN
              Res("returned", appliedTo(c, prop.value), prop.interp, Append(in_, c))
         ELSE IF phase # "Liquid" /\ ~ndebug
         THEN Aborted(prop.interp, in_)
         ELSE LET c == Convert("OilFVF", usys_internal_, usys_output_) IN
              Res("returned", appliedTo(c, prop.value), prop.interp, Append(in_, c))

----------------------------------------------------------------------------
(* The state machine: construction, then any sequence of calls of the      *)
(* public member functions by one caller.                                  *)

Call(op, curve, phase, cell, press, mix, usys, res) ==
    [op |-> op, curve |-> curve, phase |-> phase, cell |-> cell,
     press |-> press, mix |-> mix, usys |-> usys,
     outcome |-> res.outcome, value |-> res.value,
     interp |-> res.interp, cvt |-> res.cvt]

Idle == Call("idle", "-", "-", 0, <<>>, <<>>, "-", Res("returned", <<>>, <<>>, <<>>))

Externals == [nseries : 0..MaxSeries, unknown : {"returns", "raises"}]

RegionTags == 1..MaxRegion

InitFiles ==
    {i \in [PVTNUM : SeqsUpTo(RegionTags, MaxCells), hasOil : BOOLEAN,
            hasGas : BOOLEAN, units : NativeSystems] : TRUE}

\* ECLPvtCurveCollection(G, init): PVTNUM, when present, holds one tag per
\* cell of G.
Init ==
    /\ init \in InitFiles
    /\ G \in {g \in [numCells : 0..MaxCells] :
                 init.PVTNUM = <<>> \/ Len(init.PVTNUM) = g.numCells}
    /\ ndebug \in BOOLEAN
    /\ pvtnum_ = pvtnumVector(G, init)
    /\ gas_ = CreateGasPVTInterpolant(init)
    /\ oil_ = CreateOilPVTInterpolant(init)
    /\ usys_native_ = serialisedUnitConventions(init)
    /\ usys_internal_ = internalUnitConventions
    /\ usys_output_ = nullptr
    /\ last = Idle
    /\ lastSet = nullptr
    /\ nonSIWasSet = FALSE

\* setOutputUnits keeping the previous system when handed none.
setOutputUnits_KeepOnNull(usys) ==
    /\ usys_output_' = IF usys = nullptr THEN usys_output_ ELSE usys
    /\ UNCHANGED << pvtnum_, gas_, oil_, usys_native_, usys_internal_ >>

\* setOutputUnits storing the system as the native one as well.
setOutputUnits_ClobberNative(usys) ==
    /\ usys_output_' = usys
    /\ usys_native_' = IF usys = nullptr THEN usys_native_ ELSE usys
    /\ UNCHANGED << pvtnum_, gas_, oil_, usys_internal_ >>

setOutputUnits(usys) ==
    /\ usys_output_' = usys
    /\ UNCHANGED << pvtnum_, gas_, oil_, usys_native_, usys_internal_ >>

SetOutputUnits ==
    /\ last.op = "idle"
    /\ \E usys \in UnitSystems \cup {nullptr} :
          /\ setOutputUnits(usys)
          /\ last' = Call("setOutputUnits", "-", "-", 0, <<>>, <<>>, usys,
                          Res("returned", <<>>, <<>>, <<>>))
          /\ lastSet' = usys
          /\ nonSIWasSet' = (nonSIWasSet \/ usys \in {"Metric", "Field"})
    /\ UNCHANGED << ndebug, G, init >>

GetPvtCurve ==
    /\ last.op = "idle"
    /\ \E curve \in RawCurves, phase \in Phases, activeCell \in Cells, ext \in Externals :
          last' = Call("getPvtCurve", curve, phase, activeCell, <<>>, <<>>, "-",
                       getPvtCurve(curve, phase, activeCell, ext))
    /\ UNCHANGED << pvtnum_, gas_, oil_, usys_native_, usys_internal_, usys_output_,
                    ndebug, G, init, lastSet, nonSIWasSet >>

GetDynamicPropertySI ==
    /\ last.op = "idle"
    /\ \E property \in RawCurves, phase \in Phases, activeCell \in Cells,
          phasePress \in PressArrays, mixRatio \in MixArrays :
          last' = Call("getDynamicPropertySI", property, phase, activeCell,
                       phasePress, mixRatio, "-",
                       getDynamicPropertySI(property, phase, activeCell,
                                            phasePress, mixRatio))
    /\ UNCHANGED << pvtnum_, gas_, oil_, usys_native_, usys_internal_, usys_output_,
                    ndebug, G, init, lastSet, nonSIWasSet >>

GetDynamicPropertyNative ==
    /\ last.op = "idle"
    /\ \E property \in RawCurves, phase \in Phases, activeCell \in Cells,
          phasePress \in PressArrays, mixRatio \in MixArrays :
          last' = Call("getDynamicPropertyNative", property, phase, activeCell,
                       phasePress, mixRatio, "-",
                       getDynamicPropertyNative(property, phase, activeCell,
                                                phasePress, mixRatio))
    /\ UNCHANGED << pvtnum_, gas_, oil_, usys_native_, usys_internal_, usys_output_,
                    ndebug, G, init, lastSet, nonSIWasSet >>

\* The caller takes the result (every result is a fresh value the collection
\* keeps no reference to) and is free to call again.  A failed assert ends
\* the process.
Return ==
    /\ last.op # "idle"
    /\ last.outcome # "aborted"
    /\ last' = Idle
    /\ UNCHANGED << pvtnum_, gas_, oil_, usys_native_, usys_internal_, usys_output_,
                    ndebug, G, init, lastSet, nonSIWasSet >>

Next ==
    \/ SetOutputUnits
    \/ GetPvtCurve
    \/ GetDynamicPropertySI
    \/ GetDynamicPropertyNative
    \/ Return

Spec == Init /\ [][Next]_vars

----------------------------------------------------------------------------
(* Vocabulary of the properties.                                           *)

Queries == {"getPvtCurve", "getDynamicPropertySI", "getDynamicPropertyNative"}

SupportedPhases == {"Liquid", "Vapour"}

KnownCurves == {"FVF", "Viscosity", "SaturatedState"}

\* The request recorded in l names a supported phase and a cell of the grid.
ValidRequest(l) ==
    /\ l.phase \in SupportedPhases
    /\ 0 <= l.cell
    /\ l.cell < G.numCells

\* The interpolant handle of the requested phase.
Handle(phase) == IF phase = "Liquid" THEN oil_ ELSE gas_

\* A curve of exactly one series of zero samples.
IsEmptyCurve(c) == Len(c) = 1 /\ c[1].first = <<>> /\ c[1].second = <<>>

\* The curve in internal units that the evaluator yields for the getPvtCurve
\* request l, whose result has Len(l.value) series.
RawCurveOf(l) ==
    IF Handle(l.phase) = nullptr
    THEN emptyFDGraph
    ELSE PVTInterp_getPvtCurve(l.phase, l.curve, pvtnum_[l.cell + 1] - 1,
                               [nseries |-> Len(l.value), unknown |-> "returns"]).value

\* The inputs of the getDynamicPropertyNative request l in internal units.
InternalPress(l) == appliedTo(Convert("Pressure", usys_native_, "SI"), l.press)

InternalMix(l) ==
    appliedTo(Convert(IF l.phase = "Liquid" THEN "DissolvedGasOilRatio"
                                            ELSE "VaporisedOilGasRatio",
                      usys_native_, "SI"), l.mix)

----------------------------------------------------------------------------
\* C1: a query naming a phase other than Liquid or Vapour, or a cell outside
\* 0 <= activeCell < numCells (negative cells included), returns the empty
\* result (one series of zero samples for getPvtCurve, a zero-length array
\* for the dynamic operations) and raises nothing, touching no collaborator.
C1_InvalidRequestIsEmpty ==
    (last.op \in Queries /\ ~ValidRequest(last)) =>
        /\ last.outcome = "returned"
        /\ last.interp = <<>>
        /\ last.cvt = <<>>
        /\ IF last.op = "getPvtCurve"
           THEN IsEmptyCurve(last.value)
           ELSE last.value = <<>>

C1_Witness ==
    /\ last.op = "getDynamicPropertyNative"
    /\ last.phase = "Liquid"
    /\ last.cell < 0
    /\ last.curve = "FVF"
    /\ last.press # <<>>
    /\ oil_ # nullptr
    /\ usys_output_ # nullptr
    /\ last.value = <<>>

\* C2 as stated: with the interpolant of the requested phase absent,
\* getPvtCurve and getDynamicPropertySI return empty whatever the other
\* arguments and the output unit system are, and invoke no interpolant.
C2_AbsentInterpolantIsEmpty_AnyKind ==
    (/\ last.op \in {"getPvtCurve", "getDynamicPropertySI"}
     /\ last.phase \in SupportedPhases
     /\ Handle(last.phase) = nullptr) =>
        /\ last.outcome = "returned"
        /\ last.interp = <<>>
        /\ IF last.op = "getPvtCurve"
           THEN IsEmptyCurve(last.value)
           ELSE last.value = <<>>

\* C2 (amended): the same, for getDynamicPropertySI with any property kind
\* and for getPvtCurve with the curve kinds FVF, Viscosity and SaturatedState
\* or with no output unit system set.
C2_AbsentInterpolantIsEmpty ==
    (/\ last.op \in {"getPvtCurve", "getDynamicPropertySI"}
     /\ last.phase \in SupportedPhases
     /\ Handle(last.phase) = nullptr
     /\ \/ last.op = "getDynamicPropertySI"
        \/ last.curve \in KnownCurves
        \/ usys_output_ = nullptr) =>
        /\ last.outcome = "returned"
        /\ last.interp = <<>>
        /\ IF last.op = "getPvtCurve"
           THEN IsEmptyCurve(last.value)
           ELSE last.value = <<>>

C2_Witness ==
    /\ last.op = "getPvtCurve"
    /\ ValidRequest(last)
    /\ last.phase = "Vapour"
    /\ gas_ = nullptr
    /\ oil_ # nullptr
    /\ last.curve = "FVF"
    /\ usys_output_ = "Field"
    /\ IsEmptyCurve(last.value)

\* C3: a getPvtCurve or getDynamicPropertyNative query that returns converts
\* its result to the unit system of the most recent setOutputUnits call and
\* to no other; after setOutputUnits(none) the internal (SI) values are
\* returned unconverted.
C3_OutputFollowsLastSet ==
    /\ (/\ last.op = "getPvtCurve"
        /\ ValidRequest(last)
        /\ last.outcome = "returned") =>
           IF lastSet = nullptr
           THEN last.cvt = <<>> /\ last.value = RawCurveOf(last)
           ELSE /\ Len(last.cvt) = 2
                /\ \A k \in 1..2 : last.cvt[k].from = "SI" /\ last.cvt[k].to = lastSet
                /\ last.value =
                      [i \in 1..Len(last.value) |->
                          [first  |-> appliedTo(Convert(last.cvt[1].quantity, "SI", lastSet),
                                                RawCurveOf(last)[i].first),
                           second |-> appliedTo(Convert(last.cvt[2].quantity, "SI", lastSet),
                                                RawCurveOf(last)[i].second)]]
    /\ (/\ last.op = "getDynamicPropertyNative"
        /\ ValidRequest(last)
        /\ last.curve # "SaturatedState"
        /\ last.outcome = "returned") =>
           LET si == getDynamicPropertySI(last.curve, last.phase, last.cell,
                                          InternalPress(last), InternalMix(last)).value
           IN  IF lastSet = nullptr
               THEN Len(last.cvt) = 2 /\ last.value = si
               ELSE /\ Len(last.cvt) = 3
                    /\ last.cvt[3].from = "SI"
                    /\ last.cvt[3].to = lastSet
                    /\ last.value =
                          appliedTo(Convert(last.cvt[3].quantity, "SI", lastSet), si)

\* setOutputUnits(Field), then setOutputUnits(none), then a curve query.
C3_Witness ==
    /\ last.op = "getPvtCurve"
    /\ ValidRequest(last)
    /\ last.phase = "Liquid"
    /\ last.curve = "Viscosity"
    /\ oil_ # nullptr
    /\ lastSet = nullptr
    /\ nonSIWasSet
    /\ Len(last.value) = 2
    /\ last.value = RawCurveOf(last)

\* The pair of quantities (X axis, Y axis) of a curve, by curve kind, phase
\* and number of series.
AxisTable(curve, phase, nseries) ==
    CASE curve = "FVF" /\ phase = "Liquid" -> <<"Pressure", "OilFVF">>
      [] curve = "FVF" /\ phase = "Vapour" /\ nseries <= 1 -> <<"Pressure", "GasFVF">>
      [] curve = "FVF" /\ phase = "Vapour" /\ nseries > 1 ->
             <<"VaporisedOilGasRatio", "GasFVF">>
      [] curve = "Viscosity" /\ phase = "Liquid" -> <<"Pressure", "Viscosity">>
      [] curve = "Viscosity" /\ phase = "Vapour" /\ nseries <= 1 ->
             <<"Pressure", "Viscosity">>
      [] curve = "Viscosity" /\ phase = "Vapour" /\ nseries > 1 ->
             <<"VaporisedOilGasRatio", "Viscosity">>
      [] curve = "SaturatedState" /\ phase = "Liquid" ->
             <<"Pressure", "DissolvedGasOilRatio">>
      [] curve = "SaturatedState" /\ phase = "Vapour" ->
             <<"Pressure", "VaporisedOilGasRatio">>

\* C4: for a valid getPvtCurve request of a known curve kind with an output
\* unit system set, the converters applied, from internal to output units,
\* are the pair of the axis table, and both columns of every series are
\* converted with them.
C4_AxisTable ==
    (/\ last.op = "getPvtCurve"
     /\ ValidRequest(last)
     /\ last.curve \in KnownCurves
     /\ usys_output_ # nullptr) =>
        LET ax  == AxisTable(last.curve, last.phase, Len(RawCurveOf(last)))
            raw == RawCurveOf(last)
        IN  /\ last.outcome = "returned"
            /\ last.cvt = << Convert(ax[1], "SI", usys_output_),
                             Convert(ax[2], "SI", usys_output_) >>
            /\ Len(last.value) = Len(raw)
            /\ \A i \in 1..Len(raw) :
                  /\ last.value[i].first =
                        appliedTo(Convert(ax[1], "SI", usys_output_), raw[i].first)
                  /\ last.value[i].second =
                        appliedTo(Convert(ax[2], "SI", usys_output_), raw[i].second)

C4_Witness ==
    /\ last.op = "getPvtCurve"
    /\ ValidRequest(last)
    /\ last.phase = "Vapour"
    /\ last.curve = "Viscosity"
    /\ gas_ # nullptr
    /\ usys_output_ = "Metric"
    /\ Len(last.value) = 2
    /\ last.cvt[1].quantity = "VaporisedOilGasRatio"
    /\ last.value[2].first # RawCurveOf(last)[2].first

\* C5: for a valid request of kind FVF or Viscosity, getDynamicPropertyNative
\* is getDynamicPropertySI on the inputs converted from native to internal
\* units (Pressure; DissolvedGasOilRatio for Liquid, VaporisedOilGasRatio for
\* Vapour), followed, when an output unit system is set, by the conversion of
\* the result from internal to output units with Viscosity, OilFVF (Liquid)
\* or GasFVF (Vapour); with none set the SI result is returned as it is.
C5_NativeIsConvertedSI ==
    (/\ last.op = "getDynamicPropertyNative"
     /\ ValidRequest(last)
     /\ last.curve \in {"FVF", "Viscosity"}) =>
        LET si == getDynamicPropertySI(last.curve, last.phase, last.cell,
                                       InternalPress(last), InternalMix(last))
            q  == IF last.curve = "Viscosity" THEN "Viscosity"
                  ELSE IF last.phase = "Liquid" THEN "OilFVF" ELSE "GasFVF"
        IN  /\ last.outcome = si.outcome
            /\ last.interp = si.interp
            /\ si.outcome = "returned" =>
                  last.value = IF usys_output_ = nullptr
                               THEN si.value
                               ELSE appliedTo(Convert(q, "SI", usys_output_), si.value)

C5_Witness ==
    /\ last.op = "getDynamicPropertyNative"
    /\ ValidRequest(last)
    /\ last.curve = "FVF"
    /\ last.phase = "Vapour"
    /\ gas_ # nullptr
    /\ usys_native_ = "Field"
    /\ usys_output_ = "Metric"
    /\ last.mix # <<>>
    /\ last.mix[1] # <<0, 1>>
    /\ last.outcome = "returned"
    /\ Len(last.value) = 1

\* C6 as stated: a valid getPvtCurve request of an unrecognised curve kind
\* ends in a raised error, whether an output unit system is set or not.
C6_UnknownKindRaises_AnyOutput ==
    (/\ last.op = "getPvtCurve"
     /\ ValidRequest(last)
     /\ last.curve \notin KnownCurves) =>
        last.outcome \in {"raised", "aborted"}

\* C6 (amended): a valid getPvtCurve request of an unrecognised curve kind,
\* made while an output unit system is set, ends in a raised error and never
\* in a returned curve.
C6_UnknownKindRaises ==
    (/\ last.op = "getPvtCurve"
     /\ ValidRequest(last)
     /\ last.curve \notin KnownCurves
     /\ usys_output_ # nullptr) =>
        last.outcome = "raised"

\* The interpolant is absent, so the error is the one of the conversion
\* stage.
C6_Witness ==
    /\ last.op = "getPvtCurve"
    /\ ValidRequest(last)
    /\ last.curve \notin KnownCurves
    /\ usys_output_ = "SI"
    /\ Handle(last.phase) = nullptr
    /\ last.outcome = "raised"
    /\ last.interp = <<>>

\* C7: getDynamicPropertySI and getDynamicPropertyNative asked for the
\* SaturatedState property return a zero-length array and invoke neither an
\* interpolant nor a unit converter.
C7_SaturatedStateIsEmpty ==
    (/\ last.op \in {"getDynamicPropertySI", "getDynamicPropertyNative"}
     /\ last.curve = "SaturatedState") =>
        /\ last.outcome = "returned"
        /\ last.value = <<>>
        /\ last.interp = <<>>
        /\ last.cvt = <<>>

C7_Witness ==
    /\ last.op = "getDynamicPropertySI"
    /\ last.curve = "SaturatedState"
    /\ ValidRequest(last)
    /\ Handle(last.phase) # nullptr
    /\ last.press # <<>>
    /\ Len(last.mix) = Len(last.press)
    /\ usys_output_ # nullptr
    /\ last.value = <<>>

\* The region tag of cell c: the tag of the result set, 1 when it has none.
RegionTag(c) == IF init.PVTNUM = <<>> THEN 1 ELSE init.PVTNUM[c + 1]

\* C8: a valid request that consults the interpolant hands it the region
\* regionTag[activeCell] - 1; without region tags in the result set every
\* cell of the grid has tag 1 and resolves to region 0.
C8_RegionOfCell ==
    /\ init.PVTNUM = <<>> => pvtnum_ = [c \in 1..G.numCells |-> 1]
    /\ (/\ last.op \in Queries
        /\ ValidRequest(last)
        /\ Handle(last.phase) # nullptr
        /\ last.op = "getPvtCurve" \/ last.curve \in {"FVF", "Viscosity"}) =>
           /\ Len(last.interp) = 1
           /\ last.interp[1].regID = RegionTag(last.cell) - 1
           /\ init.PVTNUM = <<>> => last.interp[1].regID = 0
    /\ \A k \in 1..Len(last.interp) : last.interp[k].regID = RegionTag(last.cell) - 1

C8_Witness ==
    /\ last.op = "getDynamicPropertySI"
    /\ ValidRequest(last)
    /\ init.PVTNUM # <<>>
    /\ RegionTag(last.cell) = 2
    /\ last.cell = 1
    /\ RegionTag(0) = 1
    /\ Len(last.interp) = 1
    /\ last.interp[1].regID = 1

\* C9: for a valid request of kind FVF or Viscosity, a dynamic property
\* evaluated with an empty mixing-ratio array equals the one evaluated with
\* an all-zero mixing-ratio array as long as the pressure array.
C9_EmptyMixIsZeroMix ==
    (/\ last.op \in {"getDynamicPropertySI", "getDynamicPropertyNative"}
     /\ ValidRequest(last)
     /\ last.curve \in {"FVF", "Viscosity"}
     /\ last.mix = <<>>) =>
        LET zeros == [i \in 1..Len(last.press) |-> <<0, 1>>]
            other == IF last.op = "getDynamicPropertySI"
                     THEN getDynamicPropertySI(last.curve, last.phase, last.cell,
                                               last.press, zeros)
                     ELSE getDynamicPropertyNative(last.curve, last.phase, last.cell,
                                                   last.press, zeros)
        IN  /\ last.outcome = other.outcome
            /\ last.value = other.value

C9_Witness ==
    /\ last.op = "getDynamicPropertyNative"
    /\ ValidRequest(last)
    /\ last.curve = "Viscosity"
    /\ last.phase = "Liquid"
    /\ oil_ # nullptr
    /\ last.mix = <<>>
    /\ last.press # <<>>
    /\ usys_output_ = "Field"
    /\ last.outcome = "returned"
    /\ Len(last.value) = Len(last.press)

\* C10: the region map, the two interpolant handles and the native and
\* internal unit systems keep their values of the construction, whatever is
\* called and however it ends; only setOutputUnits changes the output unit
\* system.
C10_PersistentStateIsKept ==
    /\ [](/\ pvtnum_ = pvtnumVector(G, init)
          /\ gas_ = CreateGasPVTInterpolant(init)
          /\ oil_ = CreateOilPVTInterpolant(init)
          /\ usys_native_ = serialisedUnitConventions(init)
          /\ usys_internal_ = internalUnitConventions)
    /\ [][last'.op # "setOutputUnits" => usys_output_' = usys_output_]_vars

C10_Witness ==
    /\ last.op = "getPvtCurve"
    /\ last.outcome = "raised"
    /\ usys_output_ = "Metric"
    /\ usys_native_ = "Field"
    /\ pvtnum_ = <<2, 1>>
    /\ oil_ = nullptr
    /\ gas_ # nullptr

====
